---- MODULE Spec2Model ----
(***************************************************************************)
(* Elastic collisions of circles in a bounded rectangle, with a quadtree   *)
(* for collision detection (simulator.py).                                 *)
(*                                                                         *)
(* Numbers.  The program computes with numpy floats.  The model computes   *)
(* with integers that count 1/Q of a length unit (a fixed-point grid):     *)
(* sums, products and comparisons are exact; a quotient is rounded to the  *)
(* nearest grid value, a norm is the rounded square root.  A float NaN is  *)
(* a flag on the vector that holds it (pnan, vnan), with the propagation   *)
(* rules of IEEE arithmetic: every operation on a NaN yields NaN and every *)
(* comparison with a NaN is false.                                         *)
(***************************************************************************)
EXTENDS Integers, Sequences, FiniteSets, TLC

VARIABLES
    phase,       \* "new": no Space yet; "ready": Space constructed;
                 \* "failed": update() raised RecursionError
    objects,     \* Space.objects: sequence of bodies
    dim,         \* Space.dim: <<width, height>>
    collisions,  \* Space.collisions: list of pairs <<i, j>> of body indices
    ticks,       \* number of update() calls made
    before,      \* history: the bodies when the last update() began
    pending,     \* history: Space.collisions when the last update() began
    moved,       \* history: the bodies when the last handle_collisions began
                 \* (in update(): after move_objects)
    tree,        \* history: the quadtree nodes built by the last find_collisions
    detected,    \* history: the list find_collisions returned in the last update()
    resolved     \* history: the pairs the loop of handle_collisions processed, in order

vars == <<phase, objects, dim, collisions, ticks, before, pending, moved, tree,
          detected, resolved>>

-----------------------------------------------------------------------------
(* Bounds of the model and constants of the program *)

\* grid values per length unit (fixed-point denominator of the model)
Q == 6

\* max number of objects per leaf of quadtree
QUADTREE_K == 5

\* depth at which the interpreter gives up a recursion (RecursionError)
RecLimit == 9

\* update() calls explored
MaxTicks == 3

-----------------------------------------------------------------------------
(* Arithmetic helpers *)

Min(a, b) == IF a <= b THEN a ELSE b

Max(a, b) == IF a >= b THEN a ELSE b

\* e, with v evaluated first: the loops below carry their list along, and
\* its value is computed at every step, as the program does
With(v, e) == IF v = v THEN e ELSE e

\* a / b rounded to the nearest grid value (b > 0)
RDiv(a, b) == (2 * a + b) \div (2 * b)

\* the square root of n >= 0, rounded to the nearest grid value
Sqrt(n) ==
    LET f == CHOOSE r \in 0..n : r * r <= n /\ n < (r + 1) * (r + 1)
    IN  IF n - f * f > f THEN f + 1 ELSE f

\* np.linalg.norm of a 2-vector
Norm(d) == Sqrt(d[1] * d[1] + d[2] * d[2])

-----------------------------------------------------------------------------
(* Object *)

\* Object.__init__: stores its arguments, checks nothing
Object(pos, size, vel, mass) ==
    [pos |-> pos, vel |-> vel, size |-> size, mass |-> mass,
     pnan |-> FALSE, vnan |-> FALSE]

NanPos(o) == [o EXCEPT !.pos = <<0, 0>>, !.pnan = TRUE]

NanVel(o) == [o EXCEPT !.vel = <<0, 0>>, !.vnan = TRUE]

\* Object.collides: dist(a, b) <= a.size + b.size; false when a position is NaN
Collides(a, b) ==
    LET dx == a.pos[1] - b.pos[1]
        dy == a.pos[2] - b.pos[2]
        s  == a.size + b.size
    IN  /\ ~a.pnan
        /\ ~b.pnan
        /\ s >= 0
        /\ dx * dx + dy * dy <= s * s

-----------------------------------------------------------------------------
(* move_objects *)

\* the clamp of one coordinate at the upper bound: min(0, -v)
ClampHighVel(v) == Min(0, -v)

\* the clamp of one coordinate at the lower bound: max(0, -v)
ClampLowVel(v) == Max(0, -v)

\* the body of the loop of move_objects for one body
MoveObject(o, d) ==
    IF o.pnan \/ o.vnan THEN NanPos(o)
    ELSE
    LET x  == o.pos[1] + o.vel[1]
        y  == o.pos[2] + o.vel[2]
        \* if y >= dim[1] - size
        yHi   == y >= d[2] - o.size
        py1   == IF yHi THEN d[2] - o.size ELSE y
        vy1   == IF yHi THEN ClampHighVel(o.vel[2]) ELSE o.vel[2]
        \* if x <= size
        xLo   == x <= o.size
        px1   == IF xLo THEN o.size ELSE x
        vx1   == IF xLo THEN ClampLowVel(o.vel[1]) ELSE o.vel[1]
        \* if x >= dim[0] - size
        xHi   == x >= d[1] - o.size
        px2   == IF xHi THEN d[1] - o.size ELSE px1
        vx2   == IF xHi THEN ClampHighVel(vx1) ELSE vx1
        \* if y <= size
        yLo   == y <= o.size
        py2   == IF yLo THEN o.size ELSE py1
        vy2   == IF yLo THEN ClampLowVel(vy1) ELSE vy1
    IN  [o EXCEPT !.pos = <<px2, py2>>, !.vel = <<vx2, vy2>>]

move_objects(objs, d) == [i \in 1..Len(objs) |-> MoveObject(objs[i], d)]

-----------------------------------------------------------------------------
(* the body of the loop of handle_collisions, for the pair c = <<i, j>> *)

\* (ElasticVelOwnMass is ElasticVel with the body's own mass in the place
\* of the other body's, 2 * ma for 2 * mb.)
\* 1D elastic collision along the line of centers, in the original basis:
\* rot^T * (vf, w) with vf = ((ma - mb) * ua + 2 * mb * ub) / m, which is
\* va + (2 * mb * ((vb - va) . n) / m) * n for the unit vector n
ElasticVelOwnMass(va, vb, ma, mb, n, n2) ==
    LET m   == ma + mb
        dot == (vb[1] - va[1]) * n[1] + (vb[2] - va[2]) * n[2]
    IN  << va[1] + RDiv(2 * ma * dot * n[1], m * n2),
           va[2] + RDiv(2 * ma * dot * n[2], m * n2) >>

ElasticVel(va, vb, ma, mb, n, n2) ==
    LET m   == ma + mb
        dot == (vb[1] - va[1]) * n[1] + (vb[2] - va[2]) * n[2]
    IN  << va[1] + RDiv(2 * mb * dot * n[1], m * n2),
           va[2] + RDiv(2 * mb * dot * n[2], m * n2) >>

ResolvePair(objs, c) ==
    LET a    == objs[c[1]]
        b    == objs[c[2]]
        diff == << b.pos[1] - a.pos[1], b.pos[2] - a.pos[2] >>
        nrm  == Norm(diff)
        n2   == diff[1] * diff[1] + diff[2] * diff[2]
        m    == a.mass + b.mass
        \* ol = (size + size2 - dist) / 2, kept as 2 * ol
        ol2  == a.size + b.size - nrm
        sx   == RDiv(ol2 * diff[1], 2 * nrm)
        sy   == RDiv(ol2 * diff[2], 2 * nrm)
        velBad == a.vnan \/ b.vnan \/ m = 0
        a1 == IF a.pnan \/ b.pnan
              THEN NanVel(NanPos(a))
              ELSE IF n2 = 0
              \* diff / 0 = nan; theta = arctan2(-0, 0) = 0, rot is the identity
              THEN LET p == NanPos(a)
                   IN  IF velBad THEN NanVel(p)
                       ELSE [p EXCEPT !.vel =
                               ElasticVel(a.vel, b.vel, a.mass, b.mass, <<1, 0>>, 1)]
              ELSE LET p == [a EXCEPT !.pos = << a.pos[1] - sx, a.pos[2] - sy >>]
                   IN  IF velBad THEN NanVel(p)
                       ELSE [p EXCEPT !.vel =
                               ElasticVel(a.vel, b.vel, a.mass, b.mass, diff, n2)]
        b1 == IF a.pnan \/ b.pnan
              THEN NanVel(NanPos(b))
              ELSE IF n2 = 0
              THEN LET p == NanPos(b)
                   IN  IF velBad THEN NanVel(p)
                       ELSE [p EXCEPT !.vel =
                               ElasticVel(b.vel, a.vel, b.mass, a.mass, <<1, 0>>, 1)]
              ELSE LET p == [b EXCEPT !.pos = << b.pos[1] + sx, b.pos[2] + sy >>]
                   IN  IF velBad THEN NanVel(p)
                       ELSE [p EXCEPT !.vel =
                               ElasticVel(b.vel, a.vel, b.mass, a.mass, diff, n2)]
    IN  [objs EXCEPT ![c[1]] = a1, ![c[2]] = b1]

-----------------------------------------------------------------------------
(* The quadtree.  A rectangle is held exactly: pos and size are numerators *)
(* over the denominator den = 2^level, so that size / 2 is exact.          *)

\* Node.__init__
Node(path, pos, size, den, points) ==
    [path |-> path, pos |-> pos, size |-> size, den |-> den,
     given |-> points, points |-> points, leaf |-> TRUE]

\* the test of inside() for one body: the body's bounding square meets
\* the rectangle [x, x+w) x [y, y+h); false when the position is NaN
InsideTest(o, pos, size, den) ==
    /\ ~o.pnan
    /\ pos[1] <= (o.pos[1] + o.size) * den
    /\ (o.pos[1] - o.size) * den < pos[1] + size[1]
    /\ pos[2] <= (o.pos[2] + o.size) * den
    /\ (o.pos[2] - o.size) * den < pos[2] + size[2]

\* inside(pos, size, objects): the bodies of the list pts (indices into objs)
\* that lie at least partially within the rectangle, in list order
inside(pos, size, den, objs, pts) ==
    LET Keep(i) == InsideTest(objs[i], pos, size, den)
    IN  SelectSeq(pts, Keep)

\* the rectangle handed to inside() for the first child x1: node.pos, node.size
FirstChildRect(node) == [pos |-> node.pos, size |-> node.size, den |-> node.den]

\* the rectangle of child q (1: top-left, 2: top-right, 3: bottom-left,
\* 4: bottom-right) of a node: half the node's size, over the doubled denominator
ChildRect(node, q) ==
    [pos  |-> << 2 * node.pos[1] + (IF q \in {2, 4} THEN node.size[1] ELSE 0),
                 2 * node.pos[2] + (IF q \in {3, 4} THEN node.size[2] ELSE 0) >>,
     size |-> node.size,
     den  |-> 2 * node.den]

\* the rectangle whose bodies child q receives
ChildFilterRect(node, q) == IF q = 1 THEN FirstChildRect(node) ELSE ChildRect(node, q)

\* the child node x<q> as recursive_subdivide constructs it
Child(objs, node, q) ==
    LET r == ChildRect(node, q)
        f == ChildFilterRect(node, q)
    IN  Node(Append(node.path, q), r.pos, r.size, r.den,
             inside(f.pos, f.size, f.den, objs, node.points))

\* recursive_subdivide(node, k), at call depth `depth`: the nodes of the
\* subtree in preorder, or ok = FALSE when the recursion exceeds RecLimit
RECURSIVE recursive_subdivide(_, _, _, _)
recursive_subdivide(objs, node, k, depth) ==
    IF depth > RecLimit THEN [ok |-> FALSE, nodes |-> <<>>]
    ELSE IF Len(node.points) <= k THEN [ok |-> TRUE, nodes |-> <<node>>]
    ELSE
    LET r1 == recursive_subdivide(objs, Child(objs, node, 1), k, depth + 1)
        r2 == recursive_subdivide(objs, Child(objs, node, 2), k, depth + 1)
        r3 == recursive_subdivide(objs, Child(objs, node, 3), k, depth + 1)
        r4 == recursive_subdivide(objs, Child(objs, node, 4), k, depth + 1)
        \* node.children = [x1, x2, x3, x4]; node.points = []
        me == [node EXCEPT !.points = <<>>, !.leaf = FALSE]
    IN  IF ~r1.ok \/ ~r2.ok \/ ~r3.ok \/ ~r4.ok
        THEN [ok |-> FALSE, nodes |-> <<>>]
        ELSE [ok |-> TRUE,
              nodes |-> <<me>> \o r1.nodes \o r2.nodes \o r3.nodes \o r4.nodes]

\* Collision.__eq__
CollisionEq(c, e) ==
    \/ c[1] = e[1] /\ c[2] = e[2]
    \/ c[1] = e[2] /\ c[2] = e[1]

\* coll in self.collisions
InCollisions(c, colls) == \E n \in 1..Len(colls) : CollisionEq(c, colls[n])

\* the inner loop of traverse, `for obj2 in node.points`, for the body at
\* position a of the outer loop: appends <<pts[a], obj2>> for every obj2
\* that is another body, collides, and whose pair is not in the list.  (The
\* pairs one row appends differ from each other, a body being once in
\* pts, so the list at the start of the row decides the last test.)
ScanRow(objs, pts, a, colls) ==
    LET Add(j) == /\ pts[a] # j
                  /\ Collides(objs[pts[a]], objs[j])
                  /\ ~InCollisions(<< pts[a], j >>, colls)
        sel == SelectSeq(pts, Add)
    IN  colls \o [k \in 1..Len(sel) |-> << pts[a], sel[k] >>]

\* the outer loop of traverse: `for obj in node.points`, from position a
RECURSIVE ScanLeaf(_, _, _, _)
ScanLeaf(objs, pts, a, colls) ==
    IF a > Len(pts) THEN colls
    ELSE
    LET next == ScanRow(objs, pts, a, colls)
    IN  With(next, ScanLeaf(objs, pts, a + 1, next))

\* the node with the given path in a list of nodes
NodeOf(nodes, path) == nodes[CHOOSE k \in 1..Len(nodes) : nodes[k].path = path]

\* traverse(node), for the node at `path`: a leaf is scanned, the children
\* of an internal node are traversed in order
RECURSIVE traverse(_, _, _, _)
traverse(objs, nodes, path, colls) ==
    IF NodeOf(nodes, path).leaf
    THEN ScanLeaf(objs, NodeOf(nodes, path).points, 1, colls)
    ELSE
    LET c1 == traverse(objs, nodes, Append(path, 1), colls)
        c2 == traverse(objs, nodes, Append(path, 2), c1)
        c3 == traverse(objs, nodes, Append(path, 3), c2)
    IN  traverse(objs, nodes, Append(path, 4), c3)

\* the list 1..n of all body indices
Indices(n) == [i \in 1..n |-> i]

\* find_collisions: appends to self.collisions, which it does not clear
find_collisions(objs, d, colls) ==
    LET root == Node(<<>>, <<0, 0>>, d, 1, Indices(Len(objs)))
        t    == recursive_subdivide(objs, root, QUADTREE_K, 1)
    IN  IF t.ok
        THEN [ok |-> TRUE, tree |-> t.nodes,
              collisions |-> traverse(objs, t.nodes, <<>>, colls)]
        ELSE [ok |-> FALSE, tree |-> <<>>, collisions |-> colls]

\* self.collisions.remove(c): removes the first element equal to c
RemoveFirst(colls, c) ==
    LET hits == { n \in 1..Len(colls) : CollisionEq(colls[n], c) }
        at   == CHOOSE n \in hits : \A k \in hits : n <= k
    IN  IF hits = {} THEN colls
        ELSE SubSeq(colls, 1, at - 1) \o SubSeq(colls, at + 1, Len(colls))

\* `for c in self.collisions: ...; self.collisions.remove(c)`: the list
\* iterator holds the index n of the next element; the loop ends when n
\* reaches the length the list has by then
RECURSIVE ResolveLoop(_, _, _, _)
ResolveLoop(objs, colls, n, log) ==
    IF n > Len(colls)
    THEN [objects |-> objs, collisions |-> colls, resolved |-> log]
    ELSE LET c     == colls[n]
             objs1 == ResolvePair(objs, c)
             rest  == RemoveFirst(colls, c)
         IN  With(<<objs1, rest>>,
                  ResolveLoop(objs1, rest, n + 1, Append(log, c)))

\* handle_collisions
handle_collisions(objs, d, colls) ==
    LET f == find_collisions(objs, d, colls)
        r == ResolveLoop(objs, f.collisions, 1, <<>>)
    IN  IF f.ok
        THEN [ok |-> TRUE, objects |-> r.objects, collisions |-> r.collisions,
              tree |-> f.tree, detected |-> f.collisions, resolved |-> r.resolved]
        ELSE [ok |-> FALSE, objects |-> objs, collisions |-> colls,
              tree |-> <<>>, detected |-> <<>>, resolved |-> <<>>]

-----------------------------------------------------------------------------
(* The arguments a host passes to Object(...) and Space(objects, dim) *)

\* width and height of the space of the runs explored, in length units
DimUnits == 8

Dim == << DimUnits * Q, DimUnits * Q >>

\* bodies of radius 1 on the middle line, at or near the left wall, at rest
\* or moving along the line
LineBodies ==
    { Object(<<x, 4 * Q>>, Q, <<v, 0>>, 1) :
        x \in {0, Q, 2 * Q, 3 * Q}, v \in {0 - (Q \div 2), 0, Q \div 2} }

\* a heavier body, a body off the line, a body near the far corner, and
\* bodies whose radius or mass is not positive
OtherBodies ==
    { Object(<<2 * Q, 4 * Q>>, Q, <<0, 0>>, 2),
      Object(<<3 * Q, 5 * Q>>, Q, <<0, 0 - (Q \div 2)>>, 1),
      Object(<<7 * Q, 7 * Q>>, Q, <<Q \div 2, Q \div 2>>, 1),
      Object(<<2 * Q, 4 * Q>>, 0, <<0, 0>>, 1),
      Object(<<2 * Q, 4 * Q>>, Q, <<Q \div 2, 0>>, 0) }

BodyChoices == LineBodies \cup OtherBodies

\* up to MaxBodies bodies drawn freely
MaxBodies == 3

SmallObjects ==
    UNION { [1..n -> BodyChoices] : n \in 1..MaxBodies }

\* bodies at rest for the populations that exceed QUADTREE_K
ClusterBodies ==
    << Object(<<Q, Q>>, Q, <<0, 0>>, 1),
       Object(<<7 * Q, Q>>, Q, <<0, 0>>, 1),
       Object(<<Q, 7 * Q>>, Q, <<0, 0>>, 1),
       Object(<<7 * Q, 7 * Q>>, Q, <<0, 0>>, 1),
       Object(<<4 * Q, 4 * Q>>, Q, <<0, 0>>, 1),
       Object(<<4 * Q, 4 * Q + Q \div 2>>, Q, <<0, 0>>, 1),
       Object(<<4 * Q + Q \div 2, 4 * Q>>, Q, <<0, 0>>, 1),
       Object(<<3 * Q + Q \div 2, 4 * Q>>, Q, <<0, 0>>, 1),
       Object(<<4 * Q, 3 * Q + Q \div 2>>, Q, <<0, 0>>, 1),
       Object(<<5 * Q, 5 * Q>>, Q, <<0, 0>>, 1),
       Object(<<5 * Q + Q \div 2, 6 * Q>>, Q, <<0, 0>>, 1) >>

\* the elements of list at the indices in S, in list order
Pick(list, S) ==
    LET Nth(k) == CHOOSE i \in S : Cardinality({ j \in S : j <= i }) = k
    IN  [k \in 1..Cardinality(S) |-> list[Nth(k)]]

ClusterObjects ==
    { Pick(ClusterBodies, S) :
        S \in { T \in SUBSET (1..Len(ClusterBodies)) :
                  Cardinality(T) \in {QUADTREE_K + 1, QUADTREE_K + 2} } }

\* Space(objects, dim): every population in the space Dim, and the small
\* populations in a space of width zero
Configs ==
    { [objects |-> o, dim |-> Dim] : o \in SmallObjects \cup ClusterObjects }
    \cup { [objects |-> o, dim |-> <<0, Dim[2]>>] : o \in [1..1 -> BodyChoices] }

-----------------------------------------------------------------------------
(* Actions *)

Init ==
    /\ phase = "new"
    /\ objects = <<>>
    /\ dim = <<0, 0>>
    /\ collisions = <<>>
    /\ ticks = 0
    /\ before = <<>>
    /\ pending = <<>>
    /\ moved = <<>>
    /\ tree = <<>>
    /\ detected = <<>>
    /\ resolved = <<>>

\* Space.__init__(objects, dim): stores its arguments, checks nothing
SpaceInit(cfg) ==
    /\ phase = "new"
    /\ phase' = "ready"
    /\ objects' = cfg.objects
    /\ dim' = cfg.dim
    /\ collisions' = <<>>
    /\ UNCHANGED <<ticks, before, pending, moved, tree, detected, resolved>>

\* Space.update(): move_objects(), then handle_collisions(); a
\* RecursionError of recursive_subdivide leaves the bodies moved and
\* self.collisions as it was
update ==
    /\ phase = "ready"
    /\ ticks < MaxTicks
    /\ LET m == move_objects(objects, dim)
           h == handle_collisions(m, dim, collisions)
       IN  /\ before' = objects
           /\ pending' = collisions
           /\ moved' = m
           /\ objects' = h.objects
           /\ collisions' = h.collisions
           /\ tree' = h.tree
           /\ detected' = h.detected
           /\ resolved' = h.resolved
           /\ phase' = IF h.ok THEN "ready" ELSE "failed"
    /\ ticks' = ticks + 1
    /\ UNCHANGED dim

Next ==
    \/ \E cfg \in Configs : SpaceInit(cfg)
    \/ update

Spec == Init /\ [][Next]_vars

-----------------------------------------------------------------------------
(* Resolving one pair: handle_collisions() called once on a Space of two   *)
(* bodies                                                                  *)

\* the default window of the program, in length units
WindowUnits == 800

PairFirst ==
    { Object(<<0, 0>>, 10 * Q, <<v * Q, 0>>, m) : v \in {-5, 0, 5}, m \in {10, 20} }

PairSecond ==
    { Object(p, 10 * Q, <<v * Q, 0>>, m) :
        p \in { <<18 * Q, 0>>, <<20 * Q, 0>>, <<0, 18 * Q>>, <<12 * Q, 9 * Q>> },
        v \in {-5, 0, 5}, m \in {10, 20} }

InitPair ==
    /\ phase = "ready"
    /\ objects \in { <<a, b>> : a \in PairFirst, b \in PairSecond }
    /\ dim = << WindowUnits * Q, WindowUnits * Q >>
    /\ collisions = <<>>
    /\ ticks = 0
    /\ before = <<>>
    /\ pending = <<>>
    /\ moved = <<>>
    /\ tree = <<>>
    /\ detected = <<>>
    /\ resolved = <<>>

\* Space.handle_collisions() called by itself
HandleCollisions ==
    /\ phase = "ready"
    /\ ticks < MaxTicks
    /\ LET h == handle_collisions(objects, dim, collisions)
       IN  /\ before' = objects
           /\ pending' = collisions
           /\ moved' = objects
           /\ objects' = h.objects
           /\ collisions' = h.collisions
           /\ tree' = h.tree
           /\ detected' = h.detected
           /\ resolved' = h.resolved
           /\ phase' = IF h.ok THEN "ready" ELSE "failed"
    /\ ticks' = ticks + 1
    /\ UNCHANGED dim

NextPair == HandleCollisions

SpecPair == InitPair /\ [][NextPair]_vars

-----------------------------------------------------------------------------
(* Predicates used by the properties *)

\* a configuration the constructor should accept: positive bounds, and
\* every body with positive radius and mass
ValidConfig(objs, d) ==
    /\ d[1] > 0
    /\ d[2] > 0
    /\ \A i \in 1..Len(objs) : objs[i].size > 0 /\ objs[i].mass > 0

\* a body lies within the bounds: radius <= pos <= bound - radius on both axes
InBounds(o, d) ==
    /\ ~o.pnan
    /\ o.size <= o.pos[1] /\ o.pos[1] <= d[1] - o.size
    /\ o.size <= o.pos[2] /\ o.pos[2] <= d[2] - o.size

AllInBounds(objs, d) == \A i \in 1..Len(objs) : InBounds(objs[i], d)

\* no position and no velocity is NaN
Defined(objs) == \A i \in 1..Len(objs) : ~objs[i].pnan /\ ~objs[i].vnan

\* an update() has returned
Stepped == phase = "ready" /\ ticks > 0

\* the unordered pairs of distinct bodies that overlap or touch
Overlapping(objs) ==
    { p \in (1..Len(objs)) \X (1..Len(objs)) :
        p[1] < p[2] /\ Collides(objs[p[1]], objs[p[2]]) }

\* the unordered pair a list entry stands for
Unordered(c) == IF c[1] < c[2] THEN c ELSE << c[2], c[1] >>

\* how often the pair c occurs in the list
Occurrences(list, c) ==
    Cardinality({ n \in 1..Len(list) : CollisionEq(list[n], c) })

-----------------------------------------------------------------------------
(* Properties *)

\* C1: after every update(), every body of a valid configuration lies
\* within the bounds, on both axes (stated for the runs in which every
\* value is defined)
C1_Containment ==
    (Stepped /\ ValidConfig(objects, dim) /\ Defined(objects))
    => AllInBounds(objects, dim)

\* C2: within one update(), every pair the detection returned is resolved
\* exactly once, in the order of the list
C2_EveryPairResolvedOnce ==
    Stepped => resolved = detected

\* C3: when update() returns no pair is pending, and every pair resolved
\* in the tick overlapped at that tick's detection
C3_PairsLiveOneTick ==
    Stepped =>
        /\ collisions = <<>>
        /\ \A n \in 1..Len(resolved) :
             Collides(moved[resolved[n][1]], moved[resolved[n][2]])

\* C4: for bodies within the bounds and no pending pair, detection returns
\* exactly one entry for each overlapping unordered pair and no other entry
C4_DetectionExact ==
    (/\ phase # "new"
     /\ ticks > 0
     /\ pending = <<>>
     /\ AllInBounds(moved, dim))
    => /\ phase = "ready"
       /\ { Unordered(detected[n]) : n \in 1..Len(detected) } = Overlapping(moved)
       /\ \A n \in 1..Len(detected) : Occurrences(detected, detected[n]) = 1

\* the part of C4 that does not rest on the build returning: whenever the
\* build returns, the detected list is exact
DetectionExactWhenBuilt ==
    (Stepped /\ pending = <<>> /\ AllInBounds(moved, dim))
    => /\ { Unordered(detected[n]) : n \in 1..Len(detected) } = Overlapping(moved)
       /\ \A n \in 1..Len(detected) : Occurrences(detected, detected[n]) = 1

\* C5: building the partition ends for every valid body collection:
\* update() never fails
C5_BuildTerminates ==
    ValidConfig(objects, dim) => phase # "failed"

\* C6: no undefined value reaches the state of a body of a valid configuration
C6_NoUndefinedValue ==
    ValidConfig(objects, dim) => Defined(objects)

\* C7: no Space exists for an invalid configuration, and no update() runs on one
C7_InvalidConfigRejected ==
    phase # "new" => ValidConfig(objects, dim)

\* the clamp rule of C8 on one axis: p, v the coordinate and velocity before,
\* p1, v1 after move_objects, within [lo, hi]
ClampAxis(p, v, p1, v1, lo, hi) ==
    LET x == p + v
    IN  /\ x <= lo => /\ p1 = lo
                      /\ v < 0 => v1 = Max(0, -v)
                      /\ v > 0 => v1 = v
        /\ x >= hi => /\ p1 = hi
                      /\ v > 0 => v1 = Min(0, -v)
                      /\ v < 0 => v1 = v
        /\ (x > lo /\ x < hi) => (p1 = x /\ v1 = v)

\* C8: move_objects snaps a coordinate that reaches a bound onto the bound
\* and changes only a velocity component pointing outward; an inward
\* component and the other axis are left alone
C8_ClampFrame ==
    (phase # "new" /\ ticks > 0 /\ ValidConfig(objects, dim)) =>
        \A i \in 1..Len(before) :
            LET o == before[i]
                n == moved[i]
            IN  (~o.pnan /\ ~o.vnan /\ 2 * o.size < dim[1] /\ 2 * o.size < dim[2]) =>
                    /\ ClampAxis(o.pos[1], o.vel[1], n.pos[1], n.vel[1],
                                 o.size, dim[1] - o.size)
                    /\ ClampAxis(o.pos[2], o.vel[2], n.pos[2], n.vel[2],
                                 o.size, dim[2] - o.size)

\* the node of the tree with the given path
NodeAt(path) == NodeOf(tree, path)

\* the list of body indices holds body i
Holds(list, i) == \E k \in 1..Len(list) : list[k] = i

\* the path without its last element
Front(path) == SubSeq(path, 1, Len(path) - 1)

\* C10: in every tree built, a child has half its parent's size, lies at
\* its quadrant, and holds exactly the bodies of the parent's list that
\* meet the child's own rectangle; a body in a leaf meets the leaf's
\* rectangle, an internal node holds no body, a leaf at most QUADTREE_K
\* (stated for the bodies of a valid configuration that lie within the bounds)
C10_TreeQuartered ==
    (Stepped /\ ValidConfig(objects, dim) /\ AllInBounds(moved, dim)) =>
        \A n \in 1..Len(tree) :
            LET nd == tree[n]
            IN  /\ nd.leaf => /\ Len(nd.points) <= QUADTREE_K
                              /\ \A k \in 1..Len(nd.points) :
                                   InsideTest(moved[nd.points[k]], nd.pos, nd.size, nd.den)
                /\ ~nd.leaf => nd.points = <<>>
                /\ nd.path # <<>> =>
                     LET par == NodeAt(Front(nd.path))
                         q   == nd.path[Len(nd.path)]
                     IN  /\ nd.size = par.size /\ nd.den = 2 * par.den
                         /\ nd.pos = ChildRect(par, q).pos
                         /\ \A i \in 1..Len(moved) :
                              Holds(nd.given, i) <=>
                                  /\ Holds(par.given, i)
                                  /\ InsideTest(moved[i], nd.pos, nd.size, nd.den)

\* the pair of the concrete scenario: radius 10 each, masses 10 and 20,
\* positions (0,0) and (18,0), velocities (5,0) and (-5,0)
ScenarioPair ==
    << Object(<<0, 0>>, 10 * Q, <<5 * Q, 0>>, 10),
       Object(<<18 * Q, 0>>, 10 * Q, <<0 - 5 * Q, 0>>, 20) >>

\* handle_collisions() has been called once on the scenario's pair
ScenarioResolved == ticks = 1 /\ phase = "ready" /\ moved = ScenarioPair

\* C9 as stated: after one resolution the bodies are at distance 20 on the
\* x-axis, the y-velocities are unchanged, vf_a.x = -10 and vf_b.x = 5/3
C9_ScenarioAsStated ==
    ScenarioResolved =>
        /\ resolved = << <<1, 2>> >>
        /\ Defined(objects)
        /\ objects[1].pos[2] = 0 /\ objects[2].pos[2] = 0
        /\ objects[2].pos[1] - objects[1].pos[1] = 20 * Q
        /\ objects[1].vel[2] = 0 /\ objects[2].vel[2] = 0
        /\ objects[1].vel[1] = 0 - 10 * Q
        /\ 3 * objects[2].vel[1] = 5 * Q

\* C9 amended: as stated, with vf_a.x = -25/3, the value of
\* ((a.mass - b.mass) * a.vel.x + 2 * b.mass * b.vel.x) / m; and for every
\* pair resolved along the x-axis the two x-velocities are those of the
\* formulas, the y-velocities unchanged
C9_ScenarioAmended ==
    /\ ScenarioResolved =>
        /\ resolved = << <<1, 2>> >>
        /\ Defined(objects)
        /\ objects[1].pos = << 0 - Q, 0 >> /\ objects[2].pos = << 19 * Q, 0 >>
        /\ objects[1].vel[2] = 0 /\ objects[2].vel[2] = 0
        /\ 3 * objects[1].vel[1] = 0 - 25 * Q
        /\ 3 * objects[2].vel[1] = 5 * Q
    /\ (/\ ticks = 1 /\ phase = "ready" /\ resolved = << <<1, 2>> >>
        /\ moved[1].pos[2] = moved[2].pos[2]
        /\ moved[1].pos[1] < moved[2].pos[1]) =>
        LET a == moved[1]
            b == moved[2]
            m == a.mass + b.mass
        IN  /\ m * objects[1].vel[1]
                 = (a.mass - b.mass) * a.vel[1] + 2 * b.mass * b.vel[1]
            /\ m * objects[2].vel[1]
                 = (b.mass - a.mass) * b.vel[1] + 2 * a.mass * a.vel[1]
            /\ objects[1].vel[2] = a.vel[2] /\ objects[2].vel[2] = b.vel[2]

\* the scenario's pair was detected and resolved
C9_ScenarioReached ==
    ScenarioResolved /\ resolved = << <<1, 2>> >> /\ Defined(objects)

====
